---- MODULE Spec2Model ----
(***************************************************************************)
(* A model of the fnerror attribute macro: the body walk that finds the    *)
(* #[fnerr] call sites (src/visitors/fnerr.rs, src/lib.rs), the generics   *)
(* resolver (src/visitors/generics.rs) and the return-type rewrite         *)
(* (src/lib.rs parse_return_type, src/return_type.rs).                     *)
(*                                                                         *)
(* Syntax trees are records tagged by k.  The traversal order of the       *)
(* operators named default_* is the one of syn's generated visitors, which *)
(* the repository's visitors fall back to.                                 *)
(***************************************************************************)
EXTENDS Naturals, Sequences, FiniteSets

VARIABLES pc, pipeline, input, function, error_ident, return_type,
          error_item, found_generics, generic_args, output

vars == <<pc, pipeline, input, function, error_ident, return_type,
          error_item, found_generics, generic_args, output>>

(***************************************************************************)
(* Syntax trees                                                            *)
(***************************************************************************)
None == "None"

Segment(id) == [ident |-> id, angle |-> FALSE, args |-> <<>>]
SegmentArgs(id, as) == [ident |-> id, angle |-> TRUE, args |-> as]

TPath(leading, segs) == [k |-> "TPath", leading_colon |-> leading, segments |-> segs]
TIdent(id) == TPath(FALSE, <<Segment(id)>>)
TGeneric(id, as) == TPath(FALSE, <<SegmentArgs(id, as)>>)
TRef(lt, elem) == [k |-> "TRef", lifetime |-> lt, elem |-> elem]
TArray(elem, len) == [k |-> "TArray", elem |-> elem, len |-> len]
TUnit == [k |-> "TTuple"]

GLifetime(lt) == [k |-> "GLifetime", lifetime |-> lt]
GType(ty) == [k |-> "GType", ty |-> ty]
GConst(e) == [k |-> "GConst", expr |-> e]

EPath(ids) == [k |-> "EPath", segments |-> ids]
ELit(v) == [k |-> "ELit", lit |-> v]
ECall(attrs, func, args) == [k |-> "ECall", attrs |-> attrs, func |-> func, args |-> args]
ECast(e, ty) == [k |-> "ECast", expr |-> e, ty |-> ty]
EParen(e) == [k |-> "EParen", inner |-> e]

SExpr(e) == [k |-> "SExpr", expr |-> e]
SItem(id, blk) == [k |-> "SItem", ident |-> id, block |-> blk]

LifetimeParam(n) == [kind |-> "Lifetime", name |-> n]
TypeParam(n) == [kind |-> "Type", name |-> n]
ConstParam(n) == [kind |-> "Const", name |-> n]

Last(s) == s[Len(s)]

(***************************************************************************)
(* Generics resolver: GenericsVisitor, src/visitors/generics.rs.           *)
(* g = [found, panicked]: the found_generics deque and whether an expect   *)
(* has panicked; d is declared_generics.                                   *)
(***************************************************************************)
HasParam(ps, kind, name) ==
    \E i \in DOMAIN ps : ps[i].kind = kind /\ ps[i].name = name

push_front_at_back(g, p) == [g EXCEPT !.found = Append(g.found, p)]

push_front(g, p) == [g EXCEPT !.found = <<p>> \o g.found]

push_back(g, p) == [g EXCEPT !.found = Append(g.found, p)]

RECURSIVE visit_type(_, _, _)
RECURSIVE visit_generic_arguments(_, _, _)
RECURSIVE default_visit_path(_, _, _)

\* GenericsVisitor::visit_expr_path
visit_expr_path(d, g, i) ==
    IF /\ Len(i.segments) = 1
       /\ HasParam(d, "Const", i.segments[1])
       /\ ~HasParam(g.found, "Const", i.segments[1])
    THEN push_back(g, ConstParam(i.segments[1]))
    ELSE g

\* syn's visit_expr on the expressions a type can hold
default_visit_expr(d, g, e) ==
    IF e.k = "EPath" THEN visit_expr_path(d, g, e) ELSE g

\* syn's visit_generic_argument
default_visit_generic_argument(d, g, i) ==
    CASE i.k = "GType" -> visit_type(d, g, i.ty)
      [] i.k = "GConst" -> default_visit_expr(d, g, i.expr)
      [] OTHER -> g

\* GenericsVisitor::visit_generic_argument
visit_generic_argument(d, g, i) ==
    CASE i.k = "GLifetime" /\ ~HasParam(g.found, "Lifetime", i.lifetime) ->
            push_front(g, LifetimeParam(i.lifetime))
      [] i.k = "GConst" /\ i.expr.k = "EPath" ->
            IF Len(i.expr.segments) = 0
            THEN [g EXCEPT !.panicked = TRUE]
            ELSE LET ident == Last(i.expr.segments) IN
                 IF HasParam(d, "Const", ident) /\ ~HasParam(g.found, "Const", ident)
                 THEN push_back(g, ConstParam(ident))
                 ELSE default_visit_generic_argument(d, g, i)
      [] OTHER -> default_visit_generic_argument(d, g, i)

visit_generic_arguments(d, g, as) ==
    IF as = <<>> \/ g.panicked THEN g
    ELSE visit_generic_arguments(d, visit_generic_argument(d, g, Head(as)), Tail(as))

\* syn's visit_path: every segment's generic arguments, in order
default_visit_path(d, g, segs) ==
    IF segs = <<>> \/ g.panicked THEN g
    ELSE default_visit_path(d, visit_generic_arguments(d, g, Head(segs).args), Tail(segs))

\* GenericsVisitor::visit_type_reference
visit_type_reference(d, g, i) ==
    IF i.lifetime = None
    THEN [g EXCEPT !.panicked = TRUE]
    ELSE IF HasParam(d, "Lifetime", i.lifetime) /\ ~HasParam(g.found, "Lifetime", i.lifetime)
         THEN visit_type(d, push_front(g, LifetimeParam(i.lifetime)), i.elem)
         ELSE visit_type(d, g, i.elem)

\* GenericsVisitor::visit_type_path
visit_type_path(d, g, i) ==
    IF Len(i.segments) = 0
    THEN [g EXCEPT !.panicked = TRUE]
    ELSE LET ident == Last(i.segments).ident IN
         IF HasParam(d, "Type", ident) /\ ~HasParam(g.found, "Type", ident)
         THEN push_back(g, TypeParam(ident))
         ELSE default_visit_path(d, g, i.segments)

\* syn's visit_type: dispatch on the type's variant
visit_type(d, g, ty) ==
    IF g.panicked THEN g
    ELSE CASE ty.k = "TRef" -> visit_type_reference(d, g, ty)
           [] ty.k = "TPath" -> visit_type_path(d, g, ty)
           [] ty.k = "TArray" -> default_visit_expr(d, visit_type(d, g, ty.elem), ty.len)
           [] OTHER -> g

(***************************************************************************)
(* Call-site extractor: FnerrVistor (src/visitors/fnerr.rs) and its        *)
(* predecessor ErrorVistor (src/lib.rs), which differ only in that         *)
(* FnerrVistor hands every ascribed type to the generics resolver.         *)
(* v = [kind, declared_generics, error_ident, variants, found, panicked].  *)
(* Each visit returns [node, v]: the rewritten subtree and the visitor.    *)
(***************************************************************************)
Marker == "fnerr"

\* FnerrVistor::new / ErrorVistor::new
new_visitor(kind, ident, declared) ==
    [kind |-> kind, declared_generics |-> declared, error_ident |-> ident,
     variants |-> <<>>, found |-> <<>>, panicked |-> FALSE]

panic(v, node) == [node |-> node, v |-> [v EXCEPT !.panicked = TRUE]]

\* call.attrs.retain(..): drops every attribute whose path is the ident fnerr
retain_attrs(attrs) == SelectSeq(attrs, LAMBDA a : a # Marker)

\* no_fnerr after the retain
no_fnerr(attrs) == \A i \in DOMAIN attrs : attrs[i] # Marker

\* path.segments.insert(0, PathSegment { ident: error ident, .. })
insert_error_segment_at_back(ident, segs) == Append(segs, ident)

insert_error_segment(ident, segs) == <<ident>> \o segs

fields_index_from_one(n) == [i \in 1..n |-> i]

\* 0..fields_count
fields_index(n) == [i \in 1..n |-> i - 1]

\* the Variant pushed onto error_item.variants
new_variant(ident, fmt, fields) ==
    [ident |-> ident,
     attr |-> [path |-> "error", fmt |-> fmt, indices |-> fields_index(Len(fields))],
     fields |-> fields]

\* what the resolver found, taken over by the visitor
with_found(v, g) == [v EXCEPT !.found = g.found, !.panicked = g.panicked]

\* generics_visitor.visit_type(ty): FnerrVistor only
resolve_type(v, ty) ==
    IF v.kind = "FnerrVistor"
    THEN with_found(v, visit_type(v.declared_generics,
                                  [found |-> v.found, panicked |-> FALSE], ty))
    ELSE v

NoFields(v) == [pats |-> <<>>, fields |-> <<>>, v |-> v]

\* (pat, field) of one cast, ahead of those of the later arguments
push_field(arg, r) ==
    [pats |-> <<arg.expr>> \o r.pats, fields |-> <<arg.ty>> \o r.fields, v |-> r.v]

RECURSIVE collect_fields(_, _)

\* the later arguments, once the resolver has seen this argument's type
collect_rest(arg, v1, rest) ==
    IF v1.panicked THEN NoFields(v1) ELSE push_field(arg, collect_fields(v1, rest))

\* args.map(|arg| ..).unzip(): every remaining argument must be a cast
collect_fields(v, args) ==
    IF args = <<>> THEN NoFields(v)
    ELSE IF Head(args).k # "ECast" THEN NoFields([v EXCEPT !.panicked = TRUE])
    ELSE collect_rest(Head(args), resolve_type(v, Head(args).ty), Tail(args))

\* the marked call rewritten and its variant pushed; r is the unzip's result
rewrite_call(v, call, r) ==
    IF r.v.panicked THEN panic(v, call)
    ELSE [node |-> ECall(retain_attrs(call.attrs),
                         EPath(insert_error_segment(v.error_ident, call.func.segments)),
                         r.pats),
          v |-> [r.v EXCEPT !.variants =
                     Append(@, new_variant(call.func.segments[1], Head(call.args),
                                           r.fields))]]

RECURSIVE visit_expr_mut(_, _)
RECURSIVE visit_exprs_mut(_, _)
RECURSIVE visit_block_mut(_, _)

with_args(call, func, a) == [node |-> ECall(call.attrs, func, a.nodes), v |-> a.v]

visit_call_args(call, f) == with_args(call, f.node, visit_exprs_mut(f.v, call.args))

\* syn's visit_expr_call_mut: the callee, then the arguments left to right
default_visit_expr_call_mut(v, call) ==
    visit_call_args(call, visit_expr_mut(v, call.func))

\* FnerrVistor::visit_expr_call_mut
visit_expr_call_mut(v, call) ==
    IF no_fnerr(call.attrs)
    THEN default_visit_expr_call_mut(v, call)
    ELSE IF call.func.k # "EPath" THEN panic(v, call)
    ELSE IF Len(call.func.segments) # 1 THEN panic(v, call)
    ELSE IF call.args = <<>> THEN panic(v, call)
    ELSE rewrite_call(v, call, collect_fields(v, Tail(call.args)))

in_cast(e, r) == [node |-> ECast(r.node, e.ty), v |-> r.v]

in_paren(r) == [node |-> EParen(r.node), v |-> r.v]

\* syn's visit_expr_mut: dispatch on the expression's variant
visit_expr_mut(v, e) ==
    IF v.panicked THEN [node |-> e, v |-> v]
    ELSE CASE e.k = "ECall" -> visit_expr_call_mut(v, e)
           [] e.k = "ECast" -> in_cast(e, visit_expr_mut(v, e.expr))
           [] e.k = "EParen" -> in_paren(visit_expr_mut(v, e.inner))
           [] OTHER -> [node |-> e, v |-> v]

cons_node(node, t) == [nodes |-> <<node>> \o t.nodes, v |-> t.v]

visit_exprs_rest(h, rest) == cons_node(h.node, visit_exprs_mut(h.v, rest))

visit_exprs_mut(v, es) ==
    IF es = <<>> THEN [nodes |-> <<>>, v |-> v]
    ELSE visit_exprs_rest(visit_expr_mut(v, Head(es)), Tail(es))

in_stmt(r) == [node |-> SExpr(r.node), v |-> r.v]

in_item(s, r) == [node |-> SItem(s.ident, r.nodes), v |-> r.v]

\* syn's visit_stmt_mut: an expression statement, or a nested item whose
\* body is walked like any other block (visit_item_mut is not overridden)
visit_stmt_mut(v, s) ==
    CASE s.k = "SExpr" -> in_stmt(visit_expr_mut(v, s.expr))
      [] s.k = "SItem" -> in_item(s, visit_block_mut(v, s.block))

visit_block_rest(h, rest) == cons_node(h.node, visit_block_mut(h.v, rest))

\* syn's visit_block_mut: the statements in order
visit_block_mut(v, stmts) ==
    IF stmts = <<>> THEN [nodes |-> <<>>, v |-> v]
    ELSE visit_block_rest(visit_stmt_mut(v, Head(stmts)), Tail(stmts))

(***************************************************************************)
(* Signature transform.                                                    *)
(* A function is [ident, generics, output, block]; output is a type or     *)
(* Default (no return type).                                               *)
(***************************************************************************)
Default == [k |-> "Default"]

\* Inflector::to_pascal_case on the function names of the model
to_pascal_case(s) ==
    CASE s = "foo" -> "Foo"
      [] s = "read_file" -> "ReadFile"

\* format!("{}Error", fn_ident.to_string().to_pascal_case())
derive_error_ident(fn_ident) == to_pascal_case(fn_ident) \o "Error"

\* parse_return_type of src/lib.rs: [panicked, output]
parse_return_type(ident, return_ty) ==
    IF return_ty.k # "TPath"
    THEN [panicked |-> FALSE, output |-> return_ty]
    ELSE IF Len(return_ty.segments) = 0 \/ return_ty.segments[1].ident # "Result"
    THEN [panicked |-> TRUE, output |-> return_ty]
    ELSE LET segment == return_ty.segments[1] IN
         IF segment.angle /\ Len(segment.args) # 1
         THEN [panicked |-> TRUE, output |-> return_ty]
         ELSE LET pushed == IF segment.angle
                            THEN [segment EXCEPT !.args = Append(@, GType(TIdent(ident)))]
                            ELSE segment
              IN [panicked |-> FALSE,
                  output |-> TPath(TRUE, <<Segment("std"), Segment("result"), pushed>>)]

\* a generic argument that is one bare identifier
IsBareIdentArg(a) ==
    /\ a.k = "GType"
    /\ a.ty.k = "TPath"
    /\ ~a.ty.leading_colon
    /\ Len(a.ty.segments) = 1
    /\ ~a.ty.segments[1].angle

NotParsed == [parsed |-> FALSE]

\* ReturnType::parse of src/return_type.rs, read off the tokens of the
\* declared return type: -> Result < ok_type [,] [err_type] >
ReturnType_parse(return_ty) ==
    IF return_ty.k # "TPath" THEN NotParsed
    ELSE IF return_ty.leading_colon \/ Len(return_ty.segments) # 1 THEN NotParsed
    ELSE LET segment == return_ty.segments[1] IN
         IF segment.ident # "Result" \/ ~segment.angle THEN NotParsed
         ELSE IF Len(segment.args) \notin {1, 2} THEN NotParsed
         ELSE IF segment.args[1].k # "GType" THEN NotParsed
         ELSE IF Len(segment.args) = 2 /\ ~IsBareIdentArg(segment.args[2]) THEN NotParsed
         ELSE [parsed |-> TRUE,
               ident |-> segment.ident,
               ok_type |-> segment.args[1].ty,
               comma |-> Len(segment.args) = 2,
               err_type |-> IF Len(segment.args) = 2
                            THEN segment.args[2].ty.segments[1].ident
                            ELSE None]

Tok(s) == [t |-> s]
TokType(ty) == [ty |-> ty]

RECURSIVE separated(_)
\* #(#generics),*
separated(toks) ==
    IF Len(toks) <= 1 THEN toks
    ELSE <<Head(toks), Tok(",")>> \o separated(Tail(toks))

\* a GenericArgument's tokens
arg_tokens(a) ==
    CASE a.k = "GLifetime" -> Tok(a.lifetime)
      [] a.k = "GType" -> TokType(a.ty)
      [] a.k = "GConst" -> Tok(Last(a.expr.segments))

\* ToTokens for GenericErrType: #ident<#(#generics),*>
GenericErrType_to_tokens(meta) ==
    <<Tok(meta.ident), Tok("<")>>
        \o separated([i \in DOMAIN meta.generics |-> arg_tokens(meta.generics[i])])
        \o <<Tok(">")>>

\* ToTokens for Printer<&ReturnType, &GenericErrType>
Printer_to_tokens(inner, meta) ==
    <<Tok("->"), Tok(inner.ident), Tok("<"), TokType(inner.ok_type), Tok(",")>>
        \o GenericErrType_to_tokens(meta)
        \o <<Tok(">")>>

\* the tokens that are not identifiers
Punctuation == {"->", "<", ">", ",", "::"}
LifetimeNames == {"'a", "'b", "'static"}

IsIdentToken(tok) == "t" \in DOMAIN tok /\ tok.t \notin (Punctuation \cup LifetimeNames)
IsTypeToken(tok) == "ty" \in DOMAIN tok
IsToken(tokens, i, s) == i <= Len(tokens) /\ tokens[i] = Tok(s)

\* gt_token: input.parse()?, then the end of the input
parse_gt(tokens, i, comma, err_type) ==
    IF IsToken(tokens, i, ">") /\ Len(tokens) = i
    THEN [parsed |-> TRUE, ident |-> tokens[2].t, ok_type |-> tokens[4].ty,
          comma |-> comma, err_type |-> err_type]
    ELSE NotParsed

\* err_type: Option<Ident>
parse_err_type(tokens, i, comma) ==
    IF i <= Len(tokens) /\ IsIdentToken(tokens[i])
    THEN parse_gt(tokens, i + 1, comma, tokens[i].t)
    ELSE parse_gt(tokens, i, comma, None)

\* comma: Option<Token![,]>
parse_comma(tokens, i) ==
    IF IsToken(tokens, i, ",")
    THEN parse_err_type(tokens, i + 1, TRUE)
    ELSE parse_err_type(tokens, i, FALSE)

\* ReturnType::parse of src/return_type.rs on a token stream
ReturnType_parse_tokens(tokens) ==
    IF /\ IsToken(tokens, 1, "->")
       /\ IsToken(tokens, 2, "Result")
       /\ IsToken(tokens, 3, "<")
       /\ 4 <= Len(tokens) /\ IsTypeToken(tokens[4])
    THEN parse_comma(tokens, 5)
    ELSE NotParsed

\* the failure-type name: the explicit second slot, or the derived name
choose_error_ident(rt, fn_ident) ==
    IF rt.err_type # None THEN rt.err_type ELSE derive_error_ident(fn_ident)

\* a used generic parameter in generic-argument form
to_generic_arg(p) ==
    CASE p.kind = "Lifetime" -> GLifetime(p.name)
      [] p.kind = "Type" -> GType(TIdent(p.name))
      [] p.kind = "Const" -> GConst(EPath(<<p.name>>))

to_generic_args(found) == [i \in DOMAIN found |-> to_generic_arg(found[i])]

(***************************************************************************)
(* Inputs: the annotated functions the model runs the macro on.            *)
(***************************************************************************)
MaxCasts == 2
MaxStmts == 2

FnIdents == {"foo", "read_file"}

DeclaredAll ==
    <<LifetimeParam("'a"), LifetimeParam("'b"), TypeParam("T"), TypeParam("U"),
      ConstParam("N")>>
DeclaredSome == <<LifetimeParam("'a"), TypeParam("T")>>

\* the types ascribed in casts
TypePool ==
    { TIdent("String"),
      TIdent("T"),
      TGeneric("Vec", <<GType(TIdent("U"))>>),
      TRef("'a", TIdent("str")),
      TRef("'b", TIdent("T")),
      TRef("'static", TIdent("str")),
      TRef(None, TIdent("str")),
      TRef("'a", TRef("'b", TIdent("U"))),
      TGeneric("Cow", <<GLifetime("'static"), GType(TIdent("str"))>>),
      TGeneric("Foo", <<GLifetime("'b"), GConst(EPath(<<"N">>))>>),
      TGeneric("Buf", <<GType(TIdent("N"))>>),
      TGeneric("Vec", <<GType(TRef(None, TIdent("str")))>>),
      TArray(TIdent("u8"), EPath(<<"N">>)) }

SeqsUpTo(S, n) == UNION { [1..m -> S] : m \in 0..n }

ValueNames == <<"x", "y", "z", "w", "p", "q">>

\* v_1 as T_1, .., v_k as T_k with distinct values
Casts(tys) == [i \in DOMAIN tys |-> ECast(EPath(<<ValueNames[i]>>), tys[i])]

Marked(tag, args) == ECall(<<Marker>>, EPath(<<tag>>), args)
Unmarked(f, args) == ECall(<<>>, EPath(<<f>>), args)

\* two call sites sharing a sequence of ascribed types
TypedBodies ==
    { <<SExpr(Marked("Error2", <<ELit("{}")>> \o Casts(SubSeq(tys, 1, j)))),
        SExpr(Marked("Error3", <<ELit("{}, {}")>> \o Casts(SubSeq(tys, j + 1, Len(tys)))))>> :
        <<tys, j>> \in { <<tys, j>> \in SeqsUpTo(TypePool, MaxCasts) \X (0..MaxCasts) :
                          j <= Len(tys) } }

Simple == Marked("Error2", <<ELit("{}"), ECast(EPath(<<"e">>), TIdent("String"))>>)

\* the statement shapes of the body walk
StmtPool ==
    { SExpr(Simple),
      SExpr(Marked("Error3", <<ELit("{}, {}"),
                               ECast(EPath(<<"e">>), TRef("'static", TIdent("str"))),
                               ECast(ELit("123"), TIdent("u8"))>>)),
      SExpr(Marked("Plain", <<ELit("msg")>>)),
      SExpr(ECall(<<"allow", Marker>>, EPath(<<"Noted">>),
                  <<ELit("{}"), ECast(EPath(<<"e">>), TIdent("u8"))>>)),
      SExpr(Unmarked("map_err", <<EPath(<<"r">>), Simple>>)),
      SExpr(Unmarked("wrap", <<Unmarked("inner", <<Marked("Deep", <<ELit("d")>>)>>),
                               Marked("Wide", <<ELit("w")>>)>>)),
      SExpr(ECall(<<"allow">>, EPath(<<"log">>), <<EPath(<<"e">>)>>)),
      SExpr(EParen(Marked("Paren", <<ELit("p")>>))),
      SItem("helper", <<SExpr(Marked("Inner", <<ELit("i")>>))>>),
      SExpr(Marked("Outer", <<Marked("InTemplate", <<ELit("t")>>),
                              ECast(EPath(<<"e">>), TIdent("String"))>>)),
      SExpr(Marked("Outer2", <<ELit("{}"),
                               ECast(Marked("InValue", <<ELit("v")>>), TIdent("String"))>>)),
      SExpr(ECall(<<Marker>>, EPath(<<"errs", "Qualified">>), <<ELit("q")>>)),
      SExpr(ECall(<<Marker>>, EParen(EPath(<<"f">>)), <<ELit("c")>>)),
      SExpr(Marked("NoTemplate", <<>>)),
      SExpr(Marked("Outer3", <<ELit("{}"),
                               ECast(Marked("NoTemplate", <<>>), TIdent("String"))>>)),
      SExpr(Marked("NoCast", <<ELit("{}"), EPath(<<"e">>)>>)),
      SExpr(Marked("NoScope", <<ELit("{}"), ECast(EPath(<<"e">>), TRef(None, TIdent("str")))>>)) }

ShapedBodies == SeqsUpTo(StmtPool, MaxStmts)

Result1(ok) == TGeneric("Result", <<GType(ok)>>)
Result2(ok, err) == TGeneric("Result", <<GType(ok), GType(err)>>)

\* the declared return types
ReturnPool ==
    { Default,
      TUnit,
      Result1(TUnit),
      Result1(TGeneric("Vec", <<GType(TIdent("u8"))>>)),
      Result2(TUnit, TIdent("MyErr")),
      Result2(TUnit, TPath(FALSE, <<Segment("errs"), Segment("MyErr")>>)),
      TGeneric("Result", <<GType(TUnit), GType(TIdent("A")), GType(TIdent("B"))>>),
      TIdent("Result"),
      TGeneric("Option", <<GType(TUnit)>>),
      TPath(FALSE, <<Segment("std"), Segment("result"), SegmentArgs("Result", <<GType(TUnit)>>)>>),
      TPath(TRUE, <<Segment("std"), Segment("result"),
                    SegmentArgs("Result", <<GType(TUnit), GType(TIdent("FooError"))>>)>>) }

SignatureBodies ==
    { <<SExpr(Simple)>>,
      <<SExpr(Marked("Borrowed", <<ELit("{}"), ECast(EPath(<<"s">>), TRef("'a", TIdent("T")))>>))>> }

Function(id, gs, out, blk) == [ident |-> id, generics |-> gs, output |-> out, block |-> blk]

TypedInputs ==
    { Function("foo", gs, Result1(TUnit), b) : gs \in {DeclaredAll, DeclaredSome}, b \in TypedBodies }

ShapedInputs ==
    { Function("foo", DeclaredSome, Result1(TUnit), b) : b \in ShapedBodies }

SignatureInputs ==
    { Function(id, DeclaredSome, out, b) :
        id \in FnIdents, out \in ReturnPool, b \in SignatureBodies }

Inputs(p) ==
    IF p = "structured"
    THEN TypedInputs \cup ShapedInputs \cup SignatureInputs
    ELSE ShapedInputs \cup SignatureInputs

(***************************************************************************)
(* The macro, in its two coexisting forms:                                 *)
(*   "lib"         fnerror of src/lib.rs: parse_return_type, ErrorVistor;  *)
(*   "structured"  ReturnType::parse, FnerrVistor with the generics        *)
(*                 resolver, and the Printer of src/return_type.rs.        *)
(***************************************************************************)
Pipelines == {"lib", "structured"}

NoItem == [ident |-> None, generics |-> <<>>, variants |-> <<>>]
NoOutput == [emitted |-> FALSE]

Init ==
    /\ pipeline \in Pipelines
    /\ input \in Inputs(pipeline)
    /\ function = input
    /\ pc = "start"
    /\ error_ident = None
    /\ return_type = NotParsed
    /\ error_item = NoItem
    /\ found_generics = <<>>
    /\ generic_args = <<>>
    /\ output = NoOutput

\* the signature step: the failure-type name and the declared return type
ParseSignature ==
    /\ pc = "start"
    /\ IF pipeline = "lib"
       THEN \E r \in { parse_return_type(derive_error_ident(function.ident),
                                           function.output) } :
               /\ error_ident' = derive_error_ident(function.ident)
               /\ return_type' = return_type
               /\ function' = [function EXCEPT !.output = r.output]
               /\ pc' = IF r.panicked THEN "aborted" ELSE "parsed"
       ELSE \E rt \in { ReturnType_parse(function.output) } :
               /\ return_type' = rt
               /\ error_ident' = IF rt.parsed
                                 THEN choose_error_ident(rt, function.ident)
                                 ELSE error_ident
               /\ function' = function
               /\ pc' = IF rt.parsed THEN "parsed" ELSE "aborted"
    /\ UNCHANGED <<pipeline, input, error_item, found_generics, generic_args, output>>

\* visitor.visit_block_mut(block)
VisitBlock ==
    /\ pc = "parsed"
    /\ \E r \in { visit_block_mut(
                      new_visitor(IF pipeline = "lib" THEN "ErrorVistor" ELSE "FnerrVistor",
                                  error_ident, function.generics),
                      function.block) } :
          IF r.v.panicked
          THEN /\ pc' = "aborted"
               /\ UNCHANGED <<function, error_item, found_generics, generic_args>>
          ELSE /\ pc' = "visited"
               /\ function' = [function EXCEPT !.block = r.nodes]
               /\ error_item' = [ident |-> error_ident,
                                 generics |-> r.v.found,
                                 variants |-> r.v.variants]
               /\ found_generics' = r.v.found
               /\ generic_args' = to_generic_args(r.v.found)
    /\ UNCHANGED <<pipeline, input, error_ident, return_type, output>>

\* quote! { #error_item #function }
Emit ==
    /\ pc = "visited"
    /\ pc' = "done"
    /\ output' =
         [emitted |-> TRUE,
          error_item |-> error_item,
          function |-> IF pipeline = "lib"
                       THEN function
                       ELSE [function EXCEPT !.output =
                               [k |-> "Tokens",
                                tokens |-> Printer_to_tokens(
                                    return_type,
                                    [ident |-> error_ident, generics |-> generic_args])]]]
    /\ UNCHANGED <<pipeline, input, function, error_ident, return_type,
                   error_item, found_generics, generic_args>>

\* the emitted function handed to the macro again: the signature step on the
\* rewritten return type, with the failure-type name and the used generics
\* of the first run
Resubmit ==
    /\ pc = "done"
    /\ IF pipeline = "lib"
       THEN \E r \in { parse_return_type(error_ident, output.function.output) } :
               /\ return_type' = return_type
               /\ function' = [output.function EXCEPT !.output = r.output]
               /\ pc' = IF r.panicked THEN "resubmit_aborted" ELSE "resubmitted"
       ELSE \E rt \in { ReturnType_parse_tokens(output.function.output.tokens) } :
               /\ return_type' = rt
               /\ function' =
                    IF rt.parsed
                    THEN [output.function EXCEPT !.output =
                            [k |-> "Tokens",
                             tokens |-> Printer_to_tokens(
                                 rt, [ident |-> choose_error_ident(rt, function.ident),
                                      generics |-> generic_args])]]
                    ELSE output.function
               /\ pc' = IF rt.parsed THEN "resubmitted" ELSE "resubmit_aborted"
    /\ UNCHANGED <<pipeline, input, error_ident, error_item, found_generics,
                   generic_args, output>>

Next == ParseSignature \/ VisitBlock \/ Emit \/ Resubmit

Spec == Init /\ [][Next]_vars

(***************************************************************************)
(* What the claims speak of, read off the input and the output.            *)
(***************************************************************************)
IsCall(e) == e.k = "ECall"
IsMarked(e) == IsCall(e) /\ \E i \in DOMAIN e.attrs : e.attrs[i] = Marker

RECURSIVE Flatten(_)
Flatten(ss) == IF ss = <<>> THEN <<>> ELSE Head(ss) \o Flatten(Tail(ss))

RECURSIVE CallsIn(_, _, _)
\* The call expressions of expression e in pre-order, left to right (a call,
\* then its callee, then its arguments); inMarked tells whether the
\* arguments of a marked call are entered.
CallsIn(e, inMarked, dummy) ==
    CASE e.k = "ECall" ->
            <<e>> \o (IF IsMarked(e) /\ ~inMarked THEN <<>>
                      ELSE CallsIn(e.func, inMarked, dummy)
                           \o Flatten([i \in DOMAIN e.args |->
                                          CallsIn(e.args[i], inMarked, dummy)]))
      [] e.k = "ECast" -> CallsIn(e.expr, inMarked, dummy)
      [] e.k = "EParen" -> CallsIn(e.inner, inMarked, dummy)
      [] OTHER -> <<>>

RECURSIVE CallsOfBlock(_, _, _)
\* The call expressions of a block; inItems tells whether the bodies of
\* nested items are entered.
CallsOfBlock(blk, inMarked, inItems) ==
    Flatten([i \in DOMAIN blk |->
        IF blk[i].k = "SExpr" THEN CallsIn(blk[i].expr, inMarked, 0)
        ELSE IF inItems THEN CallsOfBlock(blk[i].block, inMarked, inItems)
        ELSE <<>>])

\* every marked call of the body outside nested items, pre-order
MarkedCalls(blk) == SelectSeq(CallsOfBlock(blk, TRUE, FALSE), IsMarked)

\* the marked calls that are call sites of the walk: not inside the
\* arguments of another marked call, nested items included
Sites(blk) == SelectSeq(CallsOfBlock(blk, FALSE, TRUE), IsMarked)

\* the form tag(template, v_1 as T_1, .., v_k as T_k)
WellFormed(c) ==
    /\ c.func.k = "EPath" /\ Len(c.func.segments) = 1
    /\ c.args # <<>>
    /\ \A i \in 2..Len(c.args) : c.args[i].k = "ECast"

TagOf(c) == c.func.segments[1]
CastTypes(c) == [i \in 1..(Len(c.args) - 1) |-> c.args[i + 1].ty]
CastValues(c) == [i \in 1..(Len(c.args) - 1) |-> c.args[i + 1].expr]

Emitted == pc = "done" /\ output.emitted

(***************************************************************************)
(* C1: the enum has one variant per marked call of the body outside nested *)
(* items, marked calls inside the arguments of other calls included, and   *)
(* the variant tags are those calls' callee identifiers in pre-order.      *)
(***************************************************************************)
VariantTags(item) == [i \in DOMAIN item.variants |-> item.variants[i].ident]

C1_VariantCorrespondence ==
    Emitted =>
        /\ Len(output.error_item.variants) = Len(MarkedCalls(input.block))
        /\ \A i \in DOMAIN output.error_item.variants :
              output.error_item.variants[i].ident = TagOf(MarkedCalls(input.block)[i])

(***************************************************************************)
(* C2: the variant emitted for a marked call tag(template, v_1 as T_1, .., *)
(* v_k as T_k) has the k unnamed fields T_1..T_k in that order, and its    *)
(* annotation is the unmodified template followed by the indices 0..k-1.   *)
(***************************************************************************)
VariantMatches(variant, c) ==
    /\ variant.ident = TagOf(c)
    /\ variant.fields = CastTypes(c)
    /\ variant.attr.fmt = c.args[1]
    /\ Len(variant.attr.indices) = Len(c.args) - 1
    /\ \A j \in DOMAIN variant.attr.indices : variant.attr.indices[j] + 1 = j

C2_VariantFields ==
    Emitted =>
        /\ Len(output.error_item.variants) = Len(Sites(input.block))
        /\ \A i \in DOMAIN output.error_item.variants :
              VariantMatches(output.error_item.variants[i], Sites(input.block)[i])

C2_Witness ==
    /\ Emitted
    /\ \E i \in DOMAIN output.error_item.variants :
          /\ Len(output.error_item.variants[i].fields) >= 2
          /\ output.error_item.variants[i].fields[1] # output.error_item.variants[i].fields[2]

(***************************************************************************)
(* C3: every marked call tag(template, v_1 as T_1, .., v_k as T_k) is      *)
(* rewritten in place to <failure type>::tag(v_1, .., v_k): the template   *)
(* is removed, each cast is reduced to its value, nothing else is added,   *)
(* dropped or reordered.                                                   *)
(***************************************************************************)
RECURSIVE RewrittenAs(_, _, _)
\* out is expression e with every marked call in it rewritten
RewrittenAs(e, out, err) ==
    CASE IsMarked(e) /\ WellFormed(e) ->
            /\ out.k = "ECall"
            /\ out.func = EPath(<<err, TagOf(e)>>)
            /\ Len(out.args) = Len(e.args) - 1
            /\ \A i \in DOMAIN out.args : RewrittenAs(CastValues(e)[i], out.args[i], err)
      [] IsCall(e) /\ ~IsMarked(e) ->
            /\ out.k = "ECall"
            /\ out.attrs = e.attrs
            /\ RewrittenAs(e.func, out.func, err)
            /\ Len(out.args) = Len(e.args)
            /\ \A i \in DOMAIN e.args : RewrittenAs(e.args[i], out.args[i], err)
      [] e.k = "ECast" ->
            out.k = "ECast" /\ out.ty = e.ty /\ RewrittenAs(e.expr, out.expr, err)
      [] e.k = "EParen" -> out.k = "EParen" /\ RewrittenAs(e.inner, out.inner, err)
      [] OTHER -> out = e

C3_CallRewritten ==
    Emitted =>
        /\ Len(output.function.block) = Len(input.block)
        /\ \A i \in DOMAIN input.block :
              input.block[i].k = "SExpr" =>
                 /\ output.function.block[i].k = "SExpr"
                 /\ RewrittenAs(input.block[i].expr, output.function.block[i].expr,
                                output.error_item.ident)

(***************************************************************************)
(* C6: the body walk never enters a nested item: a marked call inside a    *)
(* nested function contributes no variant and the nested item is left      *)
(* unchanged.                                                              *)
(***************************************************************************)
SitesOutsideItems(blk) == SelectSeq(CallsOfBlock(blk, FALSE, FALSE), IsMarked)

C6_NestedItemsOpaque ==
    Emitted =>
        /\ \A i \in DOMAIN input.block :
              input.block[i].k = "SItem" => output.function.block[i] = input.block[i]
        /\ Len(output.error_item.variants) = Len(SitesOutsideItems(input.block))

(***************************************************************************)
(* C7: no fnerr marker remains on any call expression of the output: not   *)
(* in the function body, not in the rewritten calls' arguments, not in the *)
(* templates copied into the enum's annotations.                           *)
(***************************************************************************)
NoMarkerIn(calls) == \A i \in DOMAIN calls : ~IsMarked(calls[i])

C7_NoMarkerRemains ==
    Emitted =>
        /\ NoMarkerIn(CallsOfBlock(output.function.block, TRUE, TRUE))
        /\ \A i \in DOMAIN output.error_item.variants :
              NoMarkerIn(CallsIn(output.error_item.variants[i].attr.fmt, TRUE, 0))

(***************************************************************************)
(* The generic parameters the ascribed types name, in the order the types  *)
(* are written: call site by call site, cast by cast, each type read left  *)
(* to right.                                                               *)
(***************************************************************************)
Mention(how, name) == [how |-> how, name |-> name]

MentionsOfExpr(e) ==
    IF e.k = "EPath" /\ Len(e.segments) = 1
    THEN <<Mention("ConstPath", e.segments[1])>>
    ELSE <<>>

RECURSIVE MentionsOfType(_)
MentionsOfArg(a) ==
    CASE a.k = "GLifetime" -> <<Mention("ArgLifetime", a.lifetime)>>
      [] a.k = "GType" -> MentionsOfType(a.ty)
      [] a.k = "GConst" -> MentionsOfExpr(a.expr)

MentionsOfType(ty) ==
    CASE ty.k = "TRef" ->
            (IF ty.lifetime = None THEN <<>> ELSE <<Mention("RefLifetime", ty.lifetime)>>)
            \o MentionsOfType(ty.elem)
      [] ty.k = "TPath" ->
            <<Mention("TypePath", Last(ty.segments).ident)>>
            \o Flatten([i \in DOMAIN ty.segments |->
                  Flatten([j \in DOMAIN ty.segments[i].args |->
                              MentionsOfArg(ty.segments[i].args[j])])])
      [] ty.k = "TArray" -> MentionsOfType(ty.elem) \o MentionsOfExpr(ty.len)
      [] OTHER -> <<>>

\* the types handed to the resolver, in order
CollectedTypes(blk) ==
    Flatten([i \in DOMAIN Sites(blk) |-> CastTypes(Sites(blk)[i])])

Mentions(blk) ==
    Flatten([i \in DOMAIN CollectedTypes(blk) |-> MentionsOfType(CollectedTypes(blk)[i])])

\* the parameter a mention stands for
ParamOf(m) ==
    CASE m.how \in {"RefLifetime", "ArgLifetime"} -> LifetimeParam(m.name)
      [] m.how = "TypePath" -> TypeParam(m.name)
      [] m.how = "ConstPath" -> ConstParam(m.name)

IsDeclared(d, p) == \E i \in DOMAIN d : d[i] = p

\* an occurrence the resolver collects a parameter at: a declared lifetime
\* on a reference, a lifetime given as a generic argument, a declared type
\* parameter named by a type path, a declared const parameter named by an
\* expression path
Collectable(d, m) == m.how = "ArgLifetime" \/ IsDeclared(d, ParamOf(m))

Encounters(d, ms, p) == { i \in DOMAIN ms : Collectable(d, ms[i]) /\ ParamOf(ms[i]) = p }

FirstEncounter(d, ms, p) ==
    CHOOSE i \in Encounters(d, ms, p) : \A j \in Encounters(d, ms, p) : i <= j

Resolved == pipeline = "structured" /\ pc \in {"visited", "done"}

NoDuplicates(found) ==
    \A i, j \in DOMAIN found : found[i] = found[j] => i = j

LifetimesFirst(found) ==
    \A i, j \in DOMAIN found :
        (found[i].kind = "Lifetime" /\ found[j].kind # "Lifetime") => i < j

AllEncountered(d, ms, found) ==
    \A i \in DOMAIN found : Encounters(d, ms, found[i]) # {}

\* the type and const parameters are in order of first encounter
OthersInEncounterOrder(d, ms, found) ==
    \A i, j \in DOMAIN found :
        (i < j /\ found[i].kind # "Lifetime" /\ found[j].kind # "Lifetime")
            => FirstEncounter(d, ms, found[i]) < FirstEncounter(d, ms, found[j])

LifetimesInEncounterOrder(d, ms, found) ==
    \A i, j \in DOMAIN found :
        (i < j /\ found[i].kind = "Lifetime" /\ found[j].kind = "Lifetime")
            => FirstEncounter(d, ms, found[i]) < FirstEncounter(d, ms, found[j])

LifetimesInReverseEncounterOrder(d, ms, found) ==
    \A i, j \in DOMAIN found :
        (i < j /\ found[i].kind = "Lifetime" /\ found[j].kind = "Lifetime")
            => FirstEncounter(d, ms, found[i]) > FirstEncounter(d, ms, found[j])

(***************************************************************************)
(* C4 as stated: the used-generics collection holds no parameter twice,    *)
(* every lifetime parameter before every type and const parameter, and     *)
(* within each class the parameters in the order of first encounter.       *)
(***************************************************************************)
C4_EncounterOrder ==
    Resolved =>
        /\ NoDuplicates(found_generics)
        /\ LifetimesFirst(found_generics)
        /\ AllEncountered(input.generics, Mentions(input.block), found_generics)
        /\ OthersInEncounterOrder(input.generics, Mentions(input.block), found_generics)
        /\ LifetimesInEncounterOrder(input.generics, Mentions(input.block), found_generics)

(***************************************************************************)
(* C4 amended: no parameter twice, every lifetime parameter before every   *)
(* type and const parameter, the type and const parameters in the order of *)
(* first encounter, and the lifetime parameters in the reverse of the      *)
(* order of first encounter (each is pushed at the front).                 *)
(***************************************************************************)
C4_FrontInsertedLifetimes ==
    Resolved =>
        /\ NoDuplicates(found_generics)
        /\ LifetimesFirst(found_generics)
        /\ AllEncountered(input.generics, Mentions(input.block), found_generics)
        /\ OthersInEncounterOrder(input.generics, Mentions(input.block), found_generics)
        /\ LifetimesInReverseEncounterOrder(input.generics, Mentions(input.block),
                                            found_generics)

C4_Witness ==
    /\ Resolved
    /\ Len(found_generics) = 4
    /\ found_generics[1].kind = "Lifetime" /\ found_generics[2].kind = "Lifetime"
    /\ found_generics[3].kind = "Type" /\ found_generics[4].kind = "Const"

(***************************************************************************)
(* C5: the used-generics collection is exactly the set of the function's   *)
(* declared generic parameters that some collected argument type names:    *)
(* nothing undeclared or unreferenced is in it, and no declared parameter  *)
(* that is referenced, however deep in a composite type, is left out.      *)
(***************************************************************************)
Names(ms, p) ==
    \E i \in DOMAIN ms :
        \/ ParamOf(ms[i]) = p
        \/ p.kind = "Const" /\ ms[i].how = "TypePath" /\ ms[i].name = p.name

ReferencedDeclared(d, ms) == { d[i] : i \in { j \in DOMAIN d : Names(ms, d[j]) } }

C5_ExactlyReferencedDeclared ==
    Resolved =>
        { found_generics[i] : i \in DOMAIN found_generics }
            = ReferencedDeclared(input.generics, Mentions(input.block))

(***************************************************************************)
(* C8: the rewritten return type is ::std::result::Result<ok, Err<args>>,  *)
(* ok the original success type, Err the failure-type identifier and args  *)
(* the enum's own generic parameters in argument form, in the same order;  *)
(* a declared lifetime on a reference type ascribed in a call site is in   *)
(* the enum's parameter list and in the return type's argument list.       *)
(***************************************************************************)
HasOkSlot(ty) ==
    /\ ty.k = "TPath"
    /\ Last(ty.segments).ident = "Result"
    /\ Last(ty.segments).angle
    /\ Len(Last(ty.segments).args) >= 1
    /\ Last(ty.segments).args[1].k = "GType"

OkSlot(ty) == Last(ty.segments).args[1].ty

ArgForm(params) ==
    [i \in DOMAIN params |->
        CASE params[i].kind = "Lifetime" -> GLifetime(params[i].name)
          [] params[i].kind = "Type" -> GType(TIdent(params[i].name))
          [] params[i].kind = "Const" -> GConst(EPath(<<params[i].name>>))]

ArgTokens(args) ==
    [i \in 1..(2 * Len(args) - 1) |->
        IF i % 2 = 0 THEN Tok(",")
        ELSE CASE args[(i + 1) \div 2].k = "GLifetime" -> Tok(args[(i + 1) \div 2].lifetime)
               [] args[(i + 1) \div 2].k = "GType" -> TokType(args[(i + 1) \div 2].ty)
               [] args[(i + 1) \div 2].k = "GConst" ->
                     Tok(Last(args[(i + 1) \div 2].expr.segments))]

QualifiedPrefix ==
    <<Tok("->"), Tok("::"), Tok("std"), Tok("::"), Tok("result"), Tok("::"),
      Tok("Result"), Tok("<")>>

IsQualifiedResult(rt, ok, err, args) ==
    CASE rt.k = "TPath" ->
            \/ rt = TPath(TRUE, <<Segment("std"), Segment("result"),
                                  SegmentArgs("Result", <<GType(ok),
                                                          GType(TGeneric(err, args))>>)>>)
            \/ /\ args = <<>>
               /\ rt = TPath(TRUE, <<Segment("std"), Segment("result"),
                                     SegmentArgs("Result", <<GType(ok),
                                                             GType(TIdent(err))>>)>>)
      [] rt.k = "Tokens" ->
            \/ rt.tokens = QualifiedPrefix \o <<TokType(ok), Tok(","), Tok(err), Tok("<")>>
                              \o ArgTokens(args) \o <<Tok(">"), Tok(">")>>
            \/ /\ args = <<>>
               /\ rt.tokens = QualifiedPrefix \o <<TokType(ok), Tok(","), Tok(err), Tok(">")>>
      [] OTHER -> FALSE

\* the declared lifetimes written on reference types the call sites ascribe
AscribedLifetimes(d, ms) ==
    { LifetimeParam(ms[i].name) :
        i \in { j \in DOMAIN ms : ms[j].how = "RefLifetime"
                                    /\ IsDeclared(d, LifetimeParam(ms[j].name)) } }

C8_ReturnTypeRewritten ==
    (Emitted /\ HasOkSlot(input.output)) =>
        /\ IsQualifiedResult(output.function.output, OkSlot(input.output),
                             output.error_item.ident,
                             ArgForm(output.error_item.generics))
        /\ AscribedLifetimes(input.generics, Mentions(input.block))
              \subseteq { output.error_item.generics[i] :
                             i \in DOMAIN output.error_item.generics }

(***************************************************************************)
(* C9: the failure-type name is the identifier in the declared return      *)
(* type's explicit second slot when there is one, otherwise the function's *)
(* identifier in Pascal case followed by Error; that one identifier names  *)
(* the enum, prefixes every rewritten call site and heads the second slot  *)
(* of the rewritten return type.                                           *)
(***************************************************************************)
HasExplicitSlot(ty) ==
    /\ HasOkSlot(ty)
    /\ Len(Last(ty.segments).args) = 2
    /\ Last(ty.segments).args[2].k = "GType"
    /\ Last(ty.segments).args[2].ty.k = "TPath"
    /\ Len(Last(ty.segments).args[2].ty.segments) = 1

PascalError(fn_ident) ==
    CASE fn_ident = "foo" -> "FooError"
      [] fn_ident = "read_file" -> "ReadFileError"

FailureTypeName(f) ==
    IF HasExplicitSlot(f.output)
    THEN Last(f.output.segments).args[2].ty.segments[1].ident
    ELSE PascalError(f.ident)

RECURSIVE PrefixedExpr(_, _, _)
\* out is e after the walk, and every call site of the walk in e is a call
\* of a path in out that starts with name
PrefixedExpr(e, out, name) ==
    CASE IsMarked(e) ->
            /\ out.k = "ECall" /\ out.func.k = "EPath"
            /\ Len(out.func.segments) = 2
            /\ out.func.segments[1] = name
      [] IsCall(e) /\ ~IsMarked(e) ->
            /\ out.k = "ECall" /\ Len(out.args) = Len(e.args)
            /\ PrefixedExpr(e.func, out.func, name)
            /\ \A i \in DOMAIN e.args : PrefixedExpr(e.args[i], out.args[i], name)
      [] e.k = "ECast" -> out.k = "ECast" /\ PrefixedExpr(e.expr, out.expr, name)
      [] e.k = "EParen" -> out.k = "EParen" /\ PrefixedExpr(e.inner, out.inner, name)
      [] OTHER -> TRUE

RECURSIVE PrefixedBlock(_, _, _)
PrefixedBlock(blk, out, name) ==
    /\ Len(out) = Len(blk)
    /\ \A i \in DOMAIN blk :
          /\ out[i].k = blk[i].k
          /\ IF blk[i].k = "SExpr"
             THEN PrefixedExpr(blk[i].expr, out[i].expr, name)
             ELSE PrefixedBlock(blk[i].block, out[i].block, name)

SecondSlotHead(rt) ==
    CASE rt.k = "Tokens" -> IF Len(rt.tokens) >= 6 THEN rt.tokens[6] ELSE Tok(None)
      [] rt.k = "TPath" ->
            IF Last(rt.segments).angle /\ Len(Last(rt.segments).args) >= 2
            THEN Tok(Last(rt.segments).args[2].ty.segments[1].ident)
            ELSE Tok(None)
      [] OTHER -> Tok(None)

RECURSIVE RefWithoutLifetime(_)
RefWithoutLifetime(ty) ==
    CASE ty.k = "TRef" -> ty.lifetime = None \/ RefWithoutLifetime(ty.elem)
      [] ty.k = "TPath" ->
            \E i \in DOMAIN ty.segments : \E j \in DOMAIN ty.segments[i].args :
                /\ ty.segments[i].args[j].k = "GType"
                /\ RefWithoutLifetime(ty.segments[i].args[j].ty)
      [] ty.k = "TArray" -> RefWithoutLifetime(ty.elem)
      [] OTHER -> FALSE

Malformed(c) ==
    \/ c.func.k # "EPath"
    \/ c.func.k = "EPath" /\ Len(c.func.segments) # 1
    \/ c.args = <<>>
    \/ \E i \in 2..Len(c.args) :
          \/ c.args[i].k # "ECast"
          \/ c.args[i].k = "ECast" /\ RefWithoutLifetime(c.args[i].ty)

HasMalformedCall(blk) ==
    \E i \in DOMAIN MarkedCalls(blk) : Malformed(MarkedCalls(blk)[i])

C10_MalformedAborts ==
    HasMalformedCall(input.block) => (pc \notin {"visited", "done"} /\ ~output.emitted)

(***************************************************************************)
(* C11: the transformation gets past the signature step only when the      *)
(* declared return type is exactly Result<T> or Result<T, E> with E one    *)
(* identifier; for no return type, a non-path type, another head           *)
(* identifier, Result without generic arguments or more than one           *)
(* success-type argument it aborts and nothing is emitted.                 *)
(***************************************************************************)
IsOutcomeApplication(ty) ==
    /\ ty.k = "TPath"
    /\ ~ty.leading_colon
    /\ Len(ty.segments) = 1
    /\ ty.segments[1].ident = "Result"
    /\ ty.segments[1].angle
    /\ Len(ty.segments[1].args) \in {1, 2}
    /\ ty.segments[1].args[1].k = "GType"
    /\ Len(ty.segments[1].args) = 2 =>
          /\ ty.segments[1].args[2].k = "GType"
          /\ ty.segments[1].args[2].ty.k = "TPath"
          /\ ~ty.segments[1].args[2].ty.leading_colon
          /\ Len(ty.segments[1].args[2].ty.segments) = 1
          /\ ~ty.segments[1].args[2].ty.segments[1].angle

C11_OnlyOutcomeTypeSucceeds ==
    ~IsOutcomeApplication(input.output) =>
        (pc \in {"start", "aborted"} /\ ~output.emitted)

(***************************************************************************)
(* C12: the return-type rewrite is idempotent on shape: handing the        *)
(* rewritten return type of an emitted function back to the signature step *)
(* with the failure-type name and the used generics of the first run       *)
(* succeeds and yields the same rewritten return type.                     *)
(***************************************************************************)
C12_RewriteIdempotent ==
    /\ pc # "resubmit_aborted"
    /\ pc = "resubmitted" => function.output = output.function.output

====
